---- MODULE Spec2Model ----
(***************************************************************************)
(* Feature-flag evaluation engine (FeatureManager), App (attribute parser, *)
(* platform loading, evaluation) and the bulk RolloutSimulator, as state   *)
(* machines.                                                               *)
(*                                                                         *)
(* JSON documents are encoded as TLA+ records; an optional property is a   *)
(* record field that may be missing from the record's DOMAIN.  A combo is  *)
(* the sequence of its [key, values] entries in Object.entries order; an   *)
(* entry whose value is not a list carries the field "scalar" instead of   *)
(* "values".  Strings are TLA+ strings; the reasoning trace is a sequence  *)
(* of the strings the code pushes.                                         *)
(***************************************************************************)
EXTENDS Integers, Sequences, FiniteSets, TLC

VARIABLES
    featureMap,      \* FeatureManager.featureMap : feature id -> [feature, groupId]
    userId,          \* FeatureManager.userId
    userAttributes,  \* FeatureManager.userAttributes
    murmur,          \* the library function murmurhash.v3 on the keys in use
    call,            \* arguments of the last call: the feature id and this.userId then
    result,          \* outcome of the last getFeatureValue / matchSegment call
    seen,            \* history: first outcome observed per <<userId, featureId>>
    comboArg         \* the combo handed to matchSegment when it is called on its own

engineVars == <<featureMap, userId, userAttributes, murmur, call, result, seen, comboArg>>

\* RolloutSimulator: props, React state, refs, and what handleSimulate created.
\* null is 0 for a timer id, "" for the error and the empty sequence for platformData.
VARIABLES
    mounted,            \* the component is mounted (App shows the simulate page)
    platformData,       \* prop, App's state platformData: <<>> for null, else <<config>>
    featureIdProp,      \* prop featureId, App's state featureId
    numUsers,           \* state numUsers
    isSimulating,       \* state isSimulating
    usersSimulated,     \* state usersSimulated
    usersSimulatedRef,  \* usersSimulatedRef.current
    intervalRef,        \* intervalRef.current
    simulationData,     \* state simulationData
    error,              \* state error
    intervals,          \* active timer id -> the closure of the callback given to setInterval
    managers,           \* instance id -> a FeatureManager made by handleSimulate, while reachable
    created,            \* number of timers (and engine instances) created so far
    lastTick            \* the manager and the user id of the last setUserId by a tick

simVars == <<mounted, platformData, featureIdProp, numUsers, isSimulating, usersSimulated,
             usersSimulatedRef, intervalRef, simulationData, error, intervals, managers,
             created, lastTick>>

\* what the simulator owns: its React state, refs, timers and engine instances
simulatorState == <<mounted, numUsers, isSimulating, usersSimulated, usersSimulatedRef,
                    intervalRef, simulationData, error, intervals, managers, created,
                    lastTick>>

\* App: React state besides platformData and featureId, and the fetchFeatures calls.
\* null is <<>> for featureValue and "" for the error.
VARIABLES
    platform,            \* state platform ("" while none is selected)
    featuresList,        \* state featuresList
    featureValue,        \* state featureValue: <<>> for null, else <<result>>
    appError,            \* state error of App
    isFetchingFeatures,  \* state isFetchingFeatures
    fetches,             \* the fetchFeatures calls in flight, each at one of its awaits
    issued,              \* number of fetchFeatures calls started so far
    responses            \* history: fetch id -> whether its response was ok

appVars == <<platform, featuresList, featureValue, appError, isFetchingFeatures, fetches,
             issued, responses>>

vars == <<engineVars, simVars, appVars>>

-----------------------------------------------------------------------------
(* Bounds of the model *)

MaxSegments == 2
MaxTokens == 2
MaxUsers == 2     \* largest numUsers a simulation is started with; a simulation
                  \* that does not stop is followed for one user more
MaxRuns == 2      \* simulations started (timers and engine instances created)
MaxFetches == 3   \* fetchFeatures calls started

-----------------------------------------------------------------------------
(* String helpers: the JavaScript string methods the code uses *)

\* String.prototype.startsWith
startsWith(s, p) == Len(s) >= Len(p) /\ SubSeq(s, 1, Len(p)) = p

\* String.prototype.slice(n)
slice(s, n) == IF n >= Len(s) THEN "" ELSE SubSeq(s, n + 1, Len(s))

\* index of the first occurrence of the one-character string c in s at or after i, 0 if none
RECURSIVE indexOfFrom(_, _, _)
indexOfFrom(s, c, i) ==
    IF i > Len(s) THEN 0
    ELSE IF SubSeq(s, i, i) = c THEN i
    ELSE indexOfFrom(s, c, i + 1)

\* String.prototype.split(sep) for a one-character separator
RECURSIVE split(_, _)
split(s, sep) ==
    LET k == indexOfFrom(s, sep, 1)
    IN  IF k = 0 THEN <<s>>
        ELSE <<SubSeq(s, 1, k - 1)>> \o split(slice(s, k), sep)

\* String.prototype.trim (blanks)
RECURSIVE trim(_)
trim(s) ==
    IF Len(s) = 0 THEN s
    ELSE IF SubSeq(s, 1, 1) = " " THEN trim(slice(s, 1))
    ELSE IF SubSeq(s, Len(s), Len(s)) = " " THEN trim(SubSeq(s, 1, Len(s) - 1))
    ELSE s

\* Array.prototype.join
RECURSIVE join(_, _)
join(parts, sep) ==
    IF Len(parts) = 0 THEN ""
    ELSE IF Len(parts) = 1 THEN parts[1]
    ELSE parts[1] \o sep \o join(Tail(parts), sep)

quote(s) == "\"" \o s \o "\""

\* JSON.stringify of a combo object
JSONstringify(combo) ==
    "{" \o join([i \in 1..Len(combo) |->
                    quote(combo[i].key) \o ":" \o
                    (IF "values" \in DOMAIN combo[i]
                     THEN "[" \o join([j \in 1..Len(combo[i].values) |->
                                          quote(combo[i].values[j])], ",") \o "]"
                     ELSE ToString(combo[i].scalar))], ",") \o "}"

\* A JavaScript number that may be NaN: [num |-> n] for the integer n, NaN otherwise
Num(n) == [num |-> n]
NaN == [nan |-> TRUE]

\* n >= x for the integer n and the number x: false when x is NaN
geq(n, x) == x # NaN /\ n >= x.num

Digits == "0123456789"
isDigit(c) == \E d \in 1..10 : SubSeq(Digits, d, d) = c
digitValue(c) == (CHOOSE d \in 1..10 : SubSeq(Digits, d, d) = c) - 1

\* the value of the leading run of digits of s, from the accumulated value acc
RECURSIVE leadingDigits(_, _)
leadingDigits(s, acc) ==
    IF Len(s) = 0 \/ ~isDigit(SubSeq(s, 1, 1)) THEN acc
    ELSE leadingDigits(slice(s, 1), acc * 10 + digitValue(SubSeq(s, 1, 1)))

\* parseInt(s, 10): leading blanks, an optional sign, then the leading digits;
\* NaN when no digit follows
parseInt(s) ==
    LET t        == trim(s)
        negative == startsWith(t, "-")
        body     == IF negative \/ startsWith(t, "+") THEN slice(t, 1) ELSE t
    IN  IF Len(body) = 0 \/ ~isDigit(SubSeq(body, 1, 1)) THEN NaN
        ELSE Num((IF negative THEN -1 ELSE 1) * leadingDigits(body, 0))

\* A 32-bit hash value h is kept as sign and two 16-bit halves, |h| = hi * 65536 + lo,
\* since the unsigned values of murmurhash.v3 exceed the range of TLC's integers.
U32(hi, lo) == [neg |-> FALSE, hi |-> hi, lo |-> lo]
Neg(hi, lo) == [neg |-> TRUE, hi |-> hi, lo |-> lo]

\* Math.abs
MathAbs(h) == [h EXCEPT !.neg = FALSE]

\* h % 100 for h >= 0: (hi * 65536 + lo) mod 100, with 65536 mod 100 = 36
Mod100(h) == ((h.hi % 100) * 36 + h.lo) % 100

-----------------------------------------------------------------------------
(* App: parsing of the attributes text area *)

\* the object built by the forEach over the lines: later lines overwrite earlier ones
RECURSIVE assignLines(_, _)
assignLines(lines, obj) ==
    IF Len(lines) = 0 THEN obj
    ELSE LET parts == [i \in 1..Len(split(lines[1], "=")) |-> trim(split(lines[1], "=")[i])]
             key   == parts[1]
             value == IF Len(parts) >= 2 THEN parts[2] ELSE ""
             next  == IF key # "" /\ value # ""
                      THEN [k \in DOMAIN obj \cup {key} |->
                               IF k = key THEN value ELSE obj[k]]
                      ELSE obj
         IN  assignLines(Tail(lines), next)

parseAttributes(attributesInput) == assignLines(split(attributesInput, "\n"), <<>>)

-----------------------------------------------------------------------------
(* FeatureManager *)

\* constructor: the features of all groups, in order, each with its group id
RECURSIVE flatten(_)
flatten(groups) ==
    IF Len(groups) = 0 THEN <<>>
    ELSE [i \in 1..Len(groups[1].features) |->
             [feature |-> groups[1].features[i], groupId |-> groups[1].id]]
         \o flatten(Tail(groups))

\* constructor: Map.set in iteration order, so the last entry with an id wins
buildFeatureMap(config) ==
    LET all == flatten(config.groups)
        ids == {all[i].feature.id : i \in 1..Len(all)}
        last(id) == CHOOSE i \in 1..Len(all) :
                        /\ all[i].feature.id = id
                        /\ \A j \in 1..Len(all) : all[j].feature.id = id => j <= i
    IN  [id \in ids |-> all[last(id)]]

\* (mutant) the bucket of the previous evaluation's user is reused
hashUserCached(uid, groupId) ==
    LET str  == (IF call.userId = "" THEN uid ELSE call.userId) \o "-" \o groupId
        hash == murmur[str]
    IN  Mod100(MathAbs(hash))

\* hashUser
hashUser(uid, groupId) ==
    LET str  == uid \o "-" \o groupId
        hash == murmur[str]
    IN  Mod100(MathAbs(hash))

\* (mutant) a violated negation is skipped instead of failing the segment
RECURSIVE scanValuesSoftNegation(_, _, _, _)
scanValuesSoftNegation(values, j, userValue, matchFound) ==
    IF j > Len(values)
    THEN [violated |-> FALSE, negatedValue |-> "", matchFound |-> matchFound]
    ELSE LET value == values[j]
         IN  IF startsWith(value, "!")
             THEN scanValuesSoftNegation(values, j + 1, userValue,
                      IF userValue # slice(value, 1) THEN TRUE ELSE matchFound)
             ELSE scanValuesSoftNegation(values, j + 1, userValue,
                      IF userValue = value THEN TRUE ELSE matchFound)

\* (mutant) a negation that is not violated does not count as a match
RECURSIVE scanValuesNegationNoMatch(_, _, _, _)
scanValuesNegationNoMatch(values, j, userValue, matchFound) ==
    IF j > Len(values)
    THEN [violated |-> FALSE, negatedValue |-> "", matchFound |-> matchFound]
    ELSE LET value == values[j]
         IN  IF startsWith(value, "!")
             THEN IF userValue # slice(value, 1)
                  THEN scanValuesNegationNoMatch(values, j + 1, userValue, matchFound)
                  ELSE [violated |-> TRUE, negatedValue |-> slice(value, 1),
                        matchFound |-> matchFound]
             ELSE scanValuesNegationNoMatch(values, j + 1, userValue,
                      IF userValue = value THEN TRUE ELSE matchFound)

\* matchSegment, the loop over the tokens of one attribute key (lines 155-173):
\* stops at the first violated negation, otherwise reports matchFound
RECURSIVE scanValues(_, _, _, _)
scanValues(values, j, userValue, matchFound) ==
    IF j > Len(values)
    THEN [violated |-> FALSE, negatedValue |-> "", matchFound |-> matchFound]
    ELSE LET value == values[j]
         IN  IF startsWith(value, "!")
             THEN LET negatedValue == slice(value, 1)
                  IN  IF userValue # negatedValue
                      THEN scanValues(values, j + 1, userValue, TRUE)
                      ELSE [violated |-> TRUE, negatedValue |-> negatedValue,
                            matchFound |-> matchFound]
             ELSE scanValues(values, j + 1, userValue,
                             IF userValue = value THEN TRUE ELSE matchFound)

\* !userValue : the key is missing from the object, or maps to the empty string
falsy(attrs, attributeKey) ==
    attributeKey \notin DOMAIN attrs \/ attrs[attributeKey] = ""

\* matchSegment, the loop over Object.entries(combo) from entry k on
RECURSIVE matchEntries(_, _, _, _)
matchEntries(combo, k, attrs, reasoning) ==
    IF k > Len(combo) THEN [status |-> "true", reasoning |-> reasoning]
    ELSE LET attributeKey == combo[k].key
         IN  IF falsy(attrs, attributeKey)
             THEN [status |-> "false",
                   reasoning |-> Append(reasoning,
                       "User attribute " \o quote(attributeKey)
                       \o " not present. Segment does not match.")]
             ELSE IF "values" \notin DOMAIN combo[k]
             THEN \* for..of over a value that is not iterable
                  [status |-> "TypeError", reasoning |-> reasoning]
             ELSE LET userValue == attrs[attributeKey]
                      r == scanValues(combo[k].values, 1, userValue, FALSE)
                  IN  IF r.violated
                      THEN [status |-> "false",
                            reasoning |-> Append(reasoning,
                                "User attribute " \o quote(attributeKey) \o " value "
                                \o quote(userValue) \o " matches negated value "
                                \o quote(r.negatedValue) \o ". Segment does not match.")]
                      ELSE IF ~r.matchFound
                      THEN [status |-> "false",
                            reasoning |-> Append(reasoning,
                                "No matching value for attribute " \o quote(attributeKey)
                                \o ". Segment does not match.")]
                      ELSE matchEntries(combo, k + 1, attrs, reasoning)

\* matchSegment(segment.combo, userAttributes, reasoning); a segment without
\* combo passes undefined, and Object.entries(undefined) throws a TypeError
matchSegment(segment, attrs, reasoning) ==
    IF "combo" \notin DOMAIN segment
    THEN [status |-> "TypeError", reasoning |-> reasoning]
    ELSE matchEntries(segment.combo, 1, attrs, reasoning)

\* (mutant) the threshold test is inclusive: hash <= percentage
evaluateRolloutInclusive(uid, groupId, rollout, currentValue, reasoning) ==
    LET hash       == hashUser(uid, groupId)
        percentage == rollout.percentage
        r1 == Append(reasoning,
                  "Evaluating rollout: Hash(" \o uid \o ", " \o groupId \o ") = "
                  \o ToString(hash) \o ", Rollout percentage = "
                  \o ToString(percentage) \o "%")
    IN  IF hash <= percentage
        THEN [value |-> currentValue,
              reasoning |-> Append(r1,
                  "User falls within rollout percentage. Using value: " \o currentValue)]
        ELSE [value |-> rollout.secondaryValue,
              reasoning |-> Append(r1,
                  "User does not fall within rollout percentage. Using secondary value: "
                  \o rollout.secondaryValue)]

\* evaluateRollout
evaluateRollout(uid, groupId, rollout, currentValue, reasoning) ==
    LET hash       == hashUser(uid, groupId)
        percentage == rollout.percentage
        r1 == Append(reasoning,
                  "Evaluating rollout: Hash(" \o uid \o ", " \o groupId \o ") = "
                  \o ToString(hash) \o ", Rollout percentage = "
                  \o ToString(percentage) \o "%")
    IN  IF hash < percentage
        THEN [value |-> currentValue,
              reasoning |-> Append(r1,
                  "User falls within rollout percentage. Using value: " \o currentValue)]
        ELSE [value |-> rollout.secondaryValue,
              reasoning |-> Append(r1,
                  "User does not fall within rollout percentage. Using secondary value: "
                  \o rollout.secondaryValue)]

\* if (x.rollout) : the property is present (a rollout object is truthy)
hasRollout(x) == "rollout" \in DOMAIN x

\* getFeatureValue, lines 84-105: the matched segment decides
fromSegment(segment, uid, groupId, reasoning) ==
    LET r0 == Append(reasoning, "Segment matched: " \o JSONstringify(segment.combo))
    IN  IF hasRollout(segment)
        THEN LET beforeRolloutValue == segment.value
                 e  == evaluateRollout(uid, groupId, segment.rollout, segment.value, r0)
                 r1 == Append(e.reasoning,
                           "Segment-level rollout applied: "
                           \o ToString(segment.rollout.percentage) \o "% users get "
                           \o beforeRolloutValue \o ", others get "
                           \o segment.rollout.secondaryValue)
             IN  [status |-> "return", value |-> e.value,
                  reasoning |-> Append(r1, "Final value from segment: " \o e.value)]
        ELSE [status |-> "return", value |-> segment.value,
              reasoning |-> Append(Append(r0, "No segment-level rollout applied."),
                                   "Final value from segment: " \o segment.value)]

\* (mutant) the default path pushes no entry when the feature has no rollout
fromDefaultTwoEntries(feature, uid, groupId, reasoning) ==
    LET r0 == Append(reasoning, "No segments matched. Using default value.")
    IN  IF hasRollout(feature)
        THEN LET e  == evaluateRollout(uid, groupId, feature.rollout, feature.value, r0)
                 r1 == Append(e.reasoning,
                           "Feature-level rollout applied: "
                           \o ToString(feature.rollout.percentage) \o "% users get "
                           \o feature.value \o ", others get "
                           \o feature.rollout.secondaryValue)
             IN  [status |-> "return", value |-> e.value,
                  reasoning |-> Append(r1, "Final value: " \o e.value)]
        ELSE [status |-> "return", value |-> feature.value,
              reasoning |-> Append(r0, "Final value: " \o feature.value)]

\* getFeatureValue, lines 113-135: no segment matched
fromDefault(feature, uid, groupId, reasoning) ==
    LET r0 == Append(reasoning, "No segments matched. Using default value.")
    IN  IF hasRollout(feature)
        THEN LET beforeRolloutValue == feature.value
                 e  == evaluateRollout(uid, groupId, feature.rollout, feature.value, r0)
                 r1 == Append(e.reasoning,
                           "Feature-level rollout applied: "
                           \o ToString(feature.rollout.percentage) \o "% users get "
                           \o beforeRolloutValue \o ", others get "
                           \o feature.rollout.secondaryValue)
             IN  [status |-> "return", value |-> e.value,
                  reasoning |-> Append(r1, "Final value: " \o e.value)]
        ELSE [status |-> "return", value |-> feature.value,
              reasoning |-> Append(Append(r0, "No feature-level rollout applied."),
                                   "Final value: " \o feature.value)]

\* (mutant) the loop does not return at the first match: the last matching segment decides
RECURSIVE evalSegmentsLastWins(_, _, _, _, _, _)
evalSegmentsLastWins(feature, groupId, uid, attrs, i, reasoning) ==
    IF i > Len(feature.segments) THEN fromDefault(feature, uid, groupId, reasoning)
    ELSE LET segment == feature.segments[i]
             m == matchSegment(segment, attrs, reasoning)
             later == \E j \in (i + 1)..Len(feature.segments) :
                          matchSegment(feature.segments[j], attrs, <<>>).status = "true"
         IN  IF m.status = "TypeError"
             THEN [status |-> "throw", error |-> "TypeError"]
             ELSE IF m.status = "true" /\ ~later
             THEN fromSegment(segment, uid, groupId, m.reasoning)
             ELSE evalSegmentsLastWins(feature, groupId, uid, attrs, i + 1,
                      Append(m.reasoning,
                             "Segment did not match: " \o JSONstringify(segment.combo)))

\* getFeatureValue, lines 82-111: the loop over feature.segments from index i on
RECURSIVE evalSegments(_, _, _, _, _, _)
evalSegments(feature, groupId, uid, attrs, i, reasoning) ==
    IF i > Len(feature.segments) THEN fromDefault(feature, uid, groupId, reasoning)
    ELSE LET segment == feature.segments[i]
             m == matchSegment(segment, attrs, reasoning)
         IN  IF m.status = "TypeError"
             THEN [status |-> "throw", error |-> "TypeError"]
             ELSE IF m.status = "true"
             THEN fromSegment(segment, uid, groupId, m.reasoning)
             ELSE evalSegments(feature, groupId, uid, attrs, i + 1,
                      Append(m.reasoning,
                             "Segment did not match: " \o JSONstringify(segment.combo)))

\* (mutant) the trace array is kept across calls instead of created per call
staleReasoning == IF result.status = "return" THEN result.reasoning ELSE <<>>

\* const reasoning: string[] = []
newReasoning == <<>>

\* (mutant) an unknown feature id yields a silent default instead of an error
getFeatureValueSilent(fm, uid, attrs, featureId) ==
    IF featureId \notin DOMAIN fm
    THEN [status |-> "return", value |-> "undefined", reasoning |-> <<>>]
    ELSE evalSegments(fm[featureId].feature, fm[featureId].groupId, uid, attrs, 1,
                      newReasoning)

\* getFeatureValue on an engine with the given fields
getFeatureValue(fm, uid, attrs, featureId) ==
    IF featureId \notin DOMAIN fm
    THEN [status |-> "throw",
          error |-> "Feature with id " \o quote(featureId) \o " not found."]
    ELSE evalSegments(fm[featureId].feature, fm[featureId].groupId, uid, attrs, 1,
                      newReasoning)

-----------------------------------------------------------------------------
(* Operations on one engine instance *)

\* setUserId
SetUserId(uid) ==
    /\ userId' = uid
    /\ UNCHANGED <<featureMap, userAttributes, murmur, call, result, comboArg>>
    /\ UNCHANGED <<simVars, appVars>>

\* a getFeatureValue call; its outcome (returned result or thrown error) is kept in result
GetFeatureValue(featureId) ==
    /\ result' = getFeatureValue(featureMap, userId, userAttributes, featureId)
    /\ call' = [featureId |-> featureId, userId |-> userId]
    /\ UNCHANGED <<featureMap, userId, userAttributes, murmur, comboArg>>
    /\ UNCHANGED <<simVars, appVars>>

-----------------------------------------------------------------------------
(* Inputs *)

FeatureValues == {"A", "B"}
UserIds == {"u1", "u2"}
GroupIds == {"g1"}
FeatureIds == {"f1"}
RequestIds == {"f1", "f2"}

\* rollouts with a percentage from pcts
Rollouts(pcts) == [percentage : pcts, secondaryValue : FeatureValues]

\* segments over the combos, with and without combo and rollout
Segments(combos, pcts) ==
    [combo : combos, value : FeatureValues]
    \cup [combo : combos, value : FeatureValues, rollout : Rollouts(pcts)]

\* sequences over S of length at most n
SeqUpTo(S, n) == UNION {[1..k -> S] : k \in 0..n}

Features(segs, pcts) ==
    [id : FeatureIds, value : FeatureValues, segments : SeqUpTo(segs, MaxSegments)]
    \cup [id : FeatureIds, value : FeatureValues, segments : SeqUpTo(segs, MaxSegments),
          rollout : Rollouts(pcts)]

Configs(feats) == {[groups |-> <<[id |-> g, features |-> <<f>>]>>] : g \in GroupIds, f \in feats}

\* the keys hashUser builds
HashKeys(uids, gids) == {u \o "-" \o g : u \in uids, g \in gids}

\* the simulator before its first mount, for the specifications of the engine alone
NoSimulator ==
    /\ mounted = FALSE
    /\ platformData = <<>>
    /\ featureIdProp = ""
    /\ numUsers = Num(0)
    /\ isSimulating = FALSE
    /\ usersSimulated = 0
    /\ usersSimulatedRef = 0
    /\ intervalRef = 0
    /\ simulationData = <<>>
    /\ error = ""
    /\ intervals = <<>>
    /\ managers = <<>>
    /\ created = 0
    /\ lastTick = [mgr |-> 0, userId |-> ""]

\* App before any platform is selected
NoApp ==
    /\ platform = ""
    /\ featuresList = <<>>
    /\ featureValue = <<>>
    /\ appError = ""
    /\ isFetchingFeatures = FALSE
    /\ fetches = {}
    /\ issued = 0
    /\ responses = <<>>

\* new FeatureManager(config, uid, parseAttributes(input)) with the library hash h
Construct(config, uid, input, h) ==
    /\ featureMap = buildFeatureMap(config)
    /\ userId = uid
    /\ userAttributes = parseAttributes(input)
    /\ murmur = h
    /\ call = [featureId |-> "", userId |-> ""]
    /\ result = [status |-> "none"]

-----------------------------------------------------------------------------
(* Spec: one engine over features with up to MaxSegments segments, well-formed
   and malformed, called through setUserId and getFeatureValue *)

EvalCombos ==
    { <<[key |-> "region", values |-> <<"US">>]>>,
      <<[key |-> "region", values |-> <<"!US">>]>> }

\* segments whose document has no combo property, or maps a key to a number
MalformedSegments ==
    { [value |-> "A"],
      [combo |-> <<[key |-> "region", scalar |-> 5]>>, value |-> "A"] }

EvalSegments == Segments(EvalCombos, {50}) \cup MalformedSegments

EvalInputs == {"", "region=US", "region=EU"}

\* murmurhash.v3 on the keys of Spec: u1 hashes to bucket 49, u2 to bucket 50
EvalHashes == {[k \in HashKeys(UserIds, GroupIds) |->
                   IF k = "u1-g1" THEN U32(0, 49) ELSE U32(0, 50)]}

Init ==
    /\ \E config \in Configs(Features(EvalSegments, {50})), uid \in UserIds,
          input \in EvalInputs, h \in EvalHashes :
            Construct(config, uid, input, h)
    /\ seen = <<>>
    /\ comboArg = <<>>
    /\ NoSimulator
    /\ NoApp

Next ==
    \/ \E uid \in UserIds : SetUserId(uid) /\ UNCHANGED seen
    \/ \E featureId \in RequestIds : GetFeatureValue(featureId) /\ UNCHANGED seen

Spec == Init /\ [][Next]_vars

-----------------------------------------------------------------------------
(* SpecRollout: one engine over features whose rollout, at segment level or at
   feature level, has any percentage of 0..100, with the library hash ranging
   over 32-bit values at and around the ends of the signed and unsigned ranges *)

Percentages == 0..100

HashSamples ==
    { U32(0, 0), U32(0, 49), U32(0, 50), U32(0, 99), U32(0, 100),
      U32(32767, 65535),      \* 2^31 - 1
      U32(32768, 0),          \* 2^31
      U32(65535, 65535),      \* 2^32 - 1
      Neg(0, 1),              \* -1
      Neg(32768, 0) }         \* -2^31

RolloutFeatures ==
    \* no segment, a feature-level rollout
    [id : FeatureIds, value : {"A"}, segments : {<<>>},
     rollout : [percentage : Percentages, secondaryValue : {"B"}]]
    \* one segment that matches every user, with a rollout; the feature has one of its own
    \cup [id : FeatureIds, value : {"B"},
          segments : {<<s>> : s \in [combo : {<<>>}, value : {"A"},
                                     rollout : [percentage : Percentages,
                                                secondaryValue : {"B"}]]},
          rollout : [percentage : {50}, secondaryValue : {"A"}]]

InitRollout ==
    /\ \E config \in Configs(RolloutFeatures), uid \in UserIds,
          h \in [HashKeys(UserIds, GroupIds) -> HashSamples] :
            Construct(config, uid, "", h)
    /\ seen = <<>>
    /\ comboArg = <<>>
    /\ NoSimulator
    /\ NoApp

SpecRollout == InitRollout /\ [][Next]_vars

-----------------------------------------------------------------------------
(* SpecSticky: one engine over a configuration of two groups, driven by any
   sequence of setUserId and getFeatureValue calls, with the first outcome of
   every <<userId, featureId>> pair kept in seen *)

StickyGroupIds == {"g1", "g2"}
StickyRequestIds == {"f1", "f2", "f3"}

StickyFeatures(ids) ==
    [id : ids, value : {"A"}, segments : {<<>>},
     rollout : [percentage : {50}, secondaryValue : {"B"}]]
    \cup [id : ids, value : {"A"},
          segments : {<<[combo |-> <<[key |-> "region", values |-> <<"US">>]>>,
                        value |-> "B",
                        rollout |-> [percentage |-> 50, secondaryValue |-> "A"]]>>}]

StickyConfigs ==
    {[groups |-> <<[id |-> "g1", features |-> <<a>>], [id |-> "g2", features |-> <<b>>]>>] :
        a \in StickyFeatures({"f1"}), b \in StickyFeatures({"f1", "f2"})}

\* a getFeatureValue call, its outcome recorded if it is the first for the pair
GetFeatureValueSeen(featureId) ==
    /\ GetFeatureValue(featureId)
    /\ seen' = IF <<userId, featureId>> \in DOMAIN seen THEN seen
               ELSE [k \in DOMAIN seen \cup {<<userId, featureId>>} |->
                        IF k = <<userId, featureId>> THEN result' ELSE seen[k]]

InitSticky ==
    /\ \E config \in StickyConfigs, uid \in UserIds, input \in {"", "region=US"},
          h \in [HashKeys(UserIds, StickyGroupIds) -> {U32(0, 49), U32(0, 50)}] :
            Construct(config, uid, input, h)
    /\ seen = <<>>
    /\ comboArg = <<>>
    /\ NoSimulator
    /\ NoApp

NextSticky ==
    \/ \E uid \in UserIds : SetUserId(uid) /\ UNCHANGED seen
    \/ \E featureId \in StickyRequestIds : GetFeatureValueSeen(featureId)

SpecSticky == InitSticky /\ [][NextSticky]_vars

-----------------------------------------------------------------------------
(* SpecMatch: matchSegment on its own, over combos of up to two keys with up
   to MaxTokens tokens each and the attributes parsed from the text area *)

Tokens == {"US", "EU", "!US", "!EU"}
TokenLists == SeqUpTo(Tokens, MaxTokens)
MatchKeys == {"region", "plan"}

MatchCombos ==
    {<<>>}
    \cup {<<[key |-> k, values |-> l]>> : k \in MatchKeys, l \in TokenLists}
    \cup {<<[key |-> k[1], values |-> l1], [key |-> k[2], values |-> l2]>> :
              k \in {<<"region", "plan">>, <<"plan", "region">>},
              l1 \in TokenLists, l2 \in TokenLists}

MatchInputs ==
    { "", "region=US", "region=EU", "region=CA", "region=", "region",
      "plan=US", "region=US\nplan=EU", "region=CA\nplan=US", " region = EU \nplan=CA", "region=CA\nregion=US" }

\* matchSegment(combo, userAttributes, reasoning) with an empty trace
MatchSegment ==
    /\ result.status = "none"
    /\ result' = matchSegment([combo |-> comboArg], userAttributes, <<>>)
    /\ UNCHANGED <<featureMap, userId, userAttributes, murmur, call, seen, comboArg>>
    /\ UNCHANGED <<simVars, appVars>>

InitMatch ==
    /\ comboArg \in MatchCombos
    /\ \E input \in MatchInputs : userAttributes = parseAttributes(input)
    /\ featureMap = <<>>
    /\ userId = ""
    /\ murmur = <<>>
    /\ call = [featureId |-> "", userId |-> ""]
    /\ result = [status |-> "none"]
    /\ seen = <<>>
    /\ NoSimulator
    /\ NoApp

NextMatch == MatchSegment

SpecMatch == InitMatch /\ [][NextMatch]_vars

-----------------------------------------------------------------------------
(* RolloutSimulator *)

DefaultNumUsers == 1000

\* (mutant) setUserId leaves the engine's user id as it was
withUserIdIgnored(manager, uid) == manager

\* setUserId on the instance held by a closure
withUserId(manager, uid) == [manager EXCEPT !.userId = uid]

\* a.value.localeCompare(b.value) < 0 on the values in use
ValueOrder == <<"A", "B", "undefined">>
localeBefore(a, b) ==
    (CHOOSE i \in 1..Len(ValueOrder) : ValueOrder[i] = a)
        < (CHOOSE i \in 1..Len(ValueOrder) : ValueOrder[i] = b)

\* Array.prototype.sort with the comparator of line 104 (stable)
RECURSIVE sortByValue(_)
sortByValue(rows) ==
    IF Len(rows) <= 1 THEN rows
    ELSE LET rest == sortByValue(Tail(rows))
             k == Cardinality({i \in 1..Len(rest) : localeBefore(rest[i].value, rows[1].value)})
         IN  SubSeq(rest, 1, k) \o <<rows[1]>> \o SubSeq(rest, k + 1, Len(rest))

\* ((count / total) * 100).toFixed(2); no tie between two hundredths arises
\* for the totals in use
toFixed2(count, total) ==
    LET h == (count * 20000 + total) \div (2 * total)
    IN  ToString(h \div 100) \o "." \o ToString((h % 100) \div 10) \o ToString(h % 10)

\* valueCounts.set(result.value, (valueCounts.get(result.value) || 0) + 1);
\* the Map is the sequence of its entries in insertion order
countValue(valueCounts, value) ==
    IF \E i \in 1..Len(valueCounts) : valueCounts[i].value = value
    THEN [i \in 1..Len(valueCounts) |->
             IF valueCounts[i].value = value
             THEN [valueCounts[i] EXCEPT !.count = @ + 1] ELSE valueCounts[i]]
    ELSE Append(valueCounts, [value |-> value, count |-> 1])

\* updatedData, lines 98-104
updatedData(valueCounts, total) ==
    sortByValue([i \in 1..Len(valueCounts) |->
                    [value |-> valueCounts[i].value, count |-> valueCounts[i].count,
                     percentage |-> toFixed2(valueCounts[i].count, total)]])

\* clearInterval(id): the timer leaves the table of active timers
clearInterval(timers, id) == [i \in DOMAIN timers \ {id} |-> timers[i]]

\* the engine instances still referenced by the closure of an active timer
reachable(instances, timers) ==
    [m \in {n \in DOMAIN instances : \E i \in DOMAIN timers : timers[i].mgr = n}
        |-> instances[m]]

\* a table with one more entry
with(table, key, value) ==
    [k \in DOMAIN table \cup {key} |-> IF k = key THEN value ELSE table[k]]

\* App shows the simulate page: a new component instance with its initial state
Mount ==
    /\ ~mounted
    /\ mounted' = TRUE
    /\ numUsers' = Num(DefaultNumUsers)
    /\ isSimulating' = FALSE
    /\ usersSimulated' = 0
    /\ usersSimulatedRef' = 0
    /\ intervalRef' = 0
    /\ simulationData' = <<>>
    /\ error' = ""
    /\ UNCHANGED <<platformData, featureIdProp, intervals, managers, created, lastTick,
                   engineVars, appVars>>

\* App leaves the simulate page: the cleanup of the effect of lines 46-51
Unmount ==
    /\ mounted
    /\ mounted' = FALSE
    /\ intervals' = IF intervalRef # 0 THEN clearInterval(intervals, intervalRef)
                    ELSE intervals
    /\ managers' = reachable(managers, intervals')
    /\ UNCHANGED <<platformData, featureIdProp, numUsers, isSimulating, usersSimulated,
                   usersSimulatedRef, intervalRef, simulationData, error, created,
                   lastTick, engineVars, appVars>>

\* the numUsers input (disabled while simulating): onChange with the field's text
SetNumUsers(text) ==
    /\ mounted /\ ~isSimulating
    /\ numUsers' = parseInt(text)
    /\ UNCHANGED <<mounted, platformData, featureIdProp, isSimulating, usersSimulated,
                   usersSimulatedRef, intervalRef, simulationData, error, intervals,
                   managers, created, lastTick, engineVars, appVars>>

\* App renders the simulator with other props
ChangeProps(data, featureId) ==
    /\ platformData' = data
    /\ featureIdProp' = featureId
    /\ <<platformData', featureIdProp'>> # <<platformData, featureIdProp>>
    /\ UNCHANGED <<mounted, numUsers, isSimulating, usersSimulated, usersSimulatedRef,
                   intervalRef, simulationData, error, intervals, managers, created,
                   lastTick, engineVars, appVars>>

\* handleSimulate: the Start Simulation button (disabled while simulating)
HandleSimulate ==
    /\ mounted /\ ~isSimulating
    /\ IF numUsers = NaN THEN TRUE ELSE numUsers.num <= MaxUsers
    /\ created < MaxRuns
    /\ simulationData' = <<>>
    /\ usersSimulated' = 0
    /\ usersSimulatedRef' = 0
    /\ IF platformData = <<>>
       THEN /\ error' = "Platform data is not available."
            /\ isSimulating' = FALSE
            /\ UNCHANGED <<intervalRef, intervals, managers, created>>
       ELSE IF featureIdProp = ""
       THEN /\ error' = "Please select a feature."
            /\ isSimulating' = FALSE
            /\ UNCHANGED <<intervalRef, intervals, managers, created>>
       ELSE /\ error' = ""
            /\ isSimulating' = TRUE
            /\ created' = created + 1
            /\ managers' = with(managers, created',
                               [featureMap |-> buildFeatureMap(platformData[1]),
                                userId |-> "",
                                userAttributes |-> userAttributes])
            /\ intervals' = with(intervals, created',
                                [mgr |-> created', totalUsers |-> numUsers,
                                 featureId |-> featureIdProp, valueCounts |-> <<>>])
            /\ intervalRef' = created'
    /\ UNCHANGED <<mounted, platformData, featureIdProp, numUsers, lastTick, engineVars, appVars>>

\* the callback given to setInterval, run for timer id: one macrotask, start to end
TimerTick(id) ==
    /\ id \in DOMAIN intervals
    /\ LET closure == intervals[id]
       IN  IF geq(usersSimulatedRef, closure.totalUsers)
           THEN /\ intervals' = IF intervalRef # 0 THEN clearInterval(intervals, intervalRef)
                                ELSE intervals
                /\ managers' = reachable(managers, intervals')
                /\ isSimulating' = FALSE
                /\ UNCHANGED <<usersSimulated, usersSimulatedRef, simulationData,
                               lastTick, engineVars>>
           ELSE /\ usersSimulatedRef <= MaxUsers
                /\ \E simulatedUserId \in UserIds :
                    LET manager == withUserId(managers[closure.mgr], simulatedUserId)
                        out == getFeatureValue(manager.featureMap, manager.userId,
                                               manager.userAttributes, closure.featureId)
                    IN  /\ usersSimulatedRef' = usersSimulatedRef + 1
                        /\ managers' = [managers EXCEPT ![closure.mgr] = manager]
                        /\ lastTick' = [mgr |-> closure.mgr, userId |-> simulatedUserId]
                        /\ call' = [featureId |-> closure.featureId, userId |-> manager.userId]
                        /\ result' = out
                        /\ IF out.status = "throw"
                           THEN \* the error leaves the callback: nothing after line 92 runs
                                UNCHANGED <<intervals, simulationData, usersSimulated>>
                           ELSE LET counts == countValue(closure.valueCounts, out.value)
                                IN  /\ intervals' = [intervals EXCEPT ![id].valueCounts = counts]
                                    /\ simulationData' = updatedData(counts, usersSimulatedRef')
                                    /\ usersSimulated' = usersSimulatedRef'
                        /\ UNCHANGED <<isSimulating, featureMap, userId, userAttributes, murmur,
                                       seen, comboArg>>
    /\ UNCHANGED <<mounted, platformData, featureIdProp, numUsers, intervalRef, error,
                   created, appVars>>

-----------------------------------------------------------------------------
(* SpecSim: the simulator under every interleaving of mounting, unmounting,
   prop changes, input, Start clicks and timer ticks; at most MaxRuns
   simulations of at most MaxUsers users *)

SimFeatures ==
    { [id |-> "f1", value |-> "A", segments |-> <<>>,
       rollout |-> [percentage |-> 50, secondaryValue |-> "B"]],
      [id |-> "f1", value |-> "A", segments |-> <<[value |-> "A"]>>] }

SimProps ==
    {<<<<>>, "">>}
    \cup {<<<<c>>, f>> : c \in Configs(SimFeatures), f \in {"", "f1"}}

SimHashes == {[k \in HashKeys(UserIds \cup {""}, GroupIds) |->
                  IF k = "u2-g1" THEN U32(0, 50) ELSE U32(0, 49)]}

\* what the numUsers field can hold: empty, a negative number, a fraction, and
\* the numbers up to MaxUsers
NumUsersTexts == {"", "-1", "1.5"} \cup {ToString(n) : n \in 0..MaxUsers}

InitSim ==
    /\ mounted = FALSE
    /\ \E p \in SimProps : platformData = p[1] /\ featureIdProp = p[2]
    /\ numUsers = Num(0)
    /\ isSimulating = FALSE
    /\ usersSimulated = 0
    /\ usersSimulatedRef = 0
    /\ intervalRef = 0
    /\ simulationData = <<>>
    /\ error = ""
    /\ intervals = <<>>
    /\ managers = <<>>
    /\ created = 0
    /\ lastTick = [mgr |-> 0, userId |-> ""]
    /\ featureMap = <<>>
    /\ userId = ""
    /\ userAttributes = parseAttributes("region=US")
    /\ murmur \in SimHashes
    /\ call = [featureId |-> "", userId |-> ""]
    /\ result = [status |-> "none"]
    /\ seen = <<>>
    /\ comboArg = <<>>
    /\ NoApp

NextSim ==
    \/ Mount
    \/ Unmount
    \/ \E text \in NumUsersTexts : SetNumUsers(text)
    \/ \E p \in SimProps : ChangeProps(p[1], p[2])
    \/ HandleSimulate
    \/ \E id \in 1..MaxRuns : TimerTick(id)

SpecSim == InitSim /\ [][NextSim]_vars

\* the browser runs the callback of an active timer again and again
SpecSimFair == SpecSim /\ WF_vars(\E id \in 1..MaxRuns : TimerTick(id))

-----------------------------------------------------------------------------
(* App: platform selection, fetchFeatures, feature selection and handleEvaluate,
   on the evaluate page (the simulator is not mounted) *)

Platforms == {"p1", "p2"}

\* the document the store serves for a platform
PlatformDocs ==
    [p \in Platforms |->
        [groups |-> <<[id |-> "g1",
                       features |-> <<[id |-> IF p = "p1" THEN "f1" ELSE "f2",
                                       value |-> IF p = "p1" THEN "A" ELSE "B",
                                       segments |-> <<>>]>>]>>]]

\* featureConfig.groups.flatMap(group => group.features.map(feature => feature.id))
featureIdsOf(featureConfig) ==
    [i \in 1..Len(flatten(featureConfig.groups)) |->
        flatten(featureConfig.groups)[i].feature.id]

\* the platform select: setPlatform(p) and the effect of lines 54-95 up to the
\* first await of fetchFeatures
SelectPlatform(p) ==
    /\ p # platform
    /\ platform' = p
    /\ featuresList' = <<>>
    /\ featureIdProp' = ""
    /\ featureValue' = <<>>
    /\ platformData' = <<>>
    /\ appError' = ""
    /\ IF p # ""
       THEN /\ issued < MaxFetches
            /\ isFetchingFeatures' = TRUE
            /\ issued' = issued + 1
            /\ fetches' = fetches \cup {[id |-> issued', platform |-> p, stage |-> "fetch"]}
       ELSE UNCHANGED <<isFetchingFeatures, issued, fetches>>
    /\ UNCHANGED <<responses, simulatorState, engineVars>>

\* fetchFeatures resumes after await fetch(...), with response.ok = ok
Responded(f, ok) ==
    /\ f \in fetches
    /\ f.stage = "fetch"
    /\ responses' = with(responses, f.id, ok)
    /\ IF ok
       THEN /\ fetches' = (fetches \ {f}) \cup {[f EXCEPT !.stage = "json"]}
            /\ UNCHANGED <<appError, isFetchingFeatures>>
       ELSE /\ appError' = "Failed to fetch data for platform " \o quote(f.platform) \o "."
            /\ isFetchingFeatures' = FALSE
            /\ fetches' = fetches \ {f}
    /\ UNCHANGED <<platform, featuresList, featureValue, platformData, featureIdProp,
                   issued, simulatorState, engineVars>>

\* fetchFeatures resumes after await response.json() and runs to its end
Parsed(f) ==
    /\ f \in fetches
    /\ f.stage = "json"
    /\ LET featureConfig == PlatformDocs[f.platform]
       IN  /\ featuresList' = featureIdsOf(featureConfig)
           /\ platformData' = <<featureConfig>>
    /\ isFetchingFeatures' = FALSE
    /\ fetches' = fetches \ {f}
    /\ UNCHANGED <<platform, featureValue, appError, featureIdProp, issued, responses,
                   simulatorState, engineVars>>

\* the feature select: shown when no fetch is marked running, enabled when the
\* list is not empty
SelectFeature(featureId) ==
    /\ ~isFetchingFeatures
    /\ Len(featuresList) > 0
    /\ featureId = "" \/ \E i \in 1..Len(featuresList) : featuresList[i] = featureId
    /\ featureId # featureIdProp
    /\ featureIdProp' = featureId
    /\ UNCHANGED <<platform, featuresList, featureValue, appError, isFetchingFeatures,
                   fetches, issued, responses, platformData, simulatorState, engineVars>>

\* handleEvaluate: the Evaluate Feature button of the evaluate page
HandleEvaluate ==
    /\ ~mounted
    /\ IF platform = ""
       THEN appError' = "Please select a platform." /\ featureValue' = <<>>
       ELSE IF featureIdProp = ""
       THEN appError' = "Please select a feature." /\ featureValue' = <<>>
       ELSE IF platformData = <<>>
       THEN appError' = "Platform data is not available." /\ featureValue' = <<>>
       ELSE LET out == getFeatureValue(buildFeatureMap(platformData[1]), userId,
                                       userAttributes, featureIdProp)
            IN  IF out.status = "throw"
                THEN appError' = out.error /\ featureValue' = <<>>
                ELSE appError' = "" /\ featureValue' = <<out>>
    /\ UNCHANGED <<platform, featuresList, isFetchingFeatures, fetches, issued, responses,
                   platformData, featureIdProp, simulatorState, engineVars>>

-----------------------------------------------------------------------------
(* SpecApp: App under every interleaving of platform and feature selections,
   responses, and Evaluate clicks; at most MaxFetches fetchFeatures calls *)

InitApp ==
    /\ NoApp
    /\ NoSimulator
    /\ featureMap = <<>>
    /\ userId = "u1"
    /\ userAttributes = parseAttributes("region=US")
    /\ murmur \in SimHashes
    /\ call = [featureId |-> "", userId |-> ""]
    /\ result = [status |-> "none"]
    /\ seen = <<>>
    /\ comboArg = <<>>

NextApp ==
    \/ \E p \in Platforms \cup {""} : SelectPlatform(p)
    \/ \E f \in fetches, ok \in BOOLEAN : Responded(f, ok)
    \/ \E f \in fetches : Parsed(f)
    \/ \E featureId \in {"", "f1", "f2"} : SelectFeature(featureId)
    \/ HandleEvaluate

SpecApp == InitApp /\ [][NextApp]_vars

-----------------------------------------------------------------------------
(* Vocabulary of the claims, stated without the engine's operators *)

Called == result.status # "none"
Known == call.featureId \in DOMAIN featureMap
Returned == Called /\ result.status = "return"
TheFeature == featureMap[call.featureId].feature
TheGroup == featureMap[call.featureId].groupId

IsNegation(t) == Len(t) >= 1 /\ SubSeq(t, 1, 1) = "!"
Negated(t) == IF Len(t) = 1 THEN "" ELSE SubSeq(t, 2, Len(t))

\* the key's token list is satisfied by the user's value v
KeySatisfied(values, v) ==
    /\ \A j \in 1..Len(values) : IsNegation(values[j]) => Negated(values[j]) # v
    /\ \E j \in 1..Len(values) : IsNegation(values[j]) \/ values[j] = v

ComboMatches(c, attrs) ==
    \A k \in 1..Len(c) :
        /\ c[k].key \in DOMAIN attrs
        /\ KeySatisfied(c[k].values, attrs[c[k].key])

WellFormed(segment) ==
    /\ "combo" \in DOMAIN segment
    /\ \A k \in 1..Len(segment.combo) : "values" \in DOMAIN segment.combo[k]

SegmentMatches(segment, attrs) == WellFormed(segment) /\ ComboMatches(segment.combo, attrs)

\* segment i is the first segment of the feature, in declaration order, whose combo matches
IsFirstMatch(feature, attrs, i) ==
    /\ SegmentMatches(feature.segments[i], attrs)
    /\ \A j \in 1..(i - 1) : ~SegmentMatches(feature.segments[j], attrs)

NoSegmentMatches(feature, attrs) ==
    \A j \in 1..Len(feature.segments) : ~SegmentMatches(feature.segments[j], attrs)

\* abs(hash) mod 100 of the key userId-groupId
Bucket(uid, groupId) ==
    LET h == murmur[uid \o "-" \o groupId]
    IN  ((h.hi % 100) * 65536 + h.lo) % 100

\* the value x (a segment or a feature) yields for the user: x.value, or the
\* secondary value of x's rollout when the bucket is not below the percentage
ValueOf(x, uid, groupId) ==
    IF "rollout" \in DOMAIN x /\ ~(Bucket(uid, groupId) < x.rollout.percentage)
    THEN x.rollout.secondaryValue
    ELSE x.value

HasPrefix(s, p) == Len(s) >= Len(p) /\ SubSeq(s, 1, Len(p)) = p
HasSuffix(s, p) == Len(s) >= Len(p) /\ SubSeq(s, Len(s) - Len(p) + 1, Len(s)) = p
CountPrefix(trace, p) == Cardinality({n \in 1..Len(trace) : HasPrefix(trace[n], p)})

-----------------------------------------------------------------------------
(* C2, C3 *)

\* C2: matchSegment returns true exactly when every key of the combo has a
\* user value, no negation token of its list names that value, and the list
\* holds a positive token equal to the value or some negation token.
MatchSegmentIff ==
    Called => /\ result.status \in {"true", "false"}
              /\ result.status = "true" <=> ComboMatches(comboArg, userAttributes)

\* both keys matched, one of them by a list of negations alone
MatchSegmentWitness ==
    /\ result.status = "true"
    /\ Len(comboArg) = 2
    /\ comboArg[1] = [key |-> "region", values |-> <<"!EU", "!US">>]
    /\ comboArg[2] = [key |-> "plan", values |-> <<"EU", "US">>]

MixedCombo == <<[key |-> "region", values |-> <<"US", "!EU">>]>>

MixedCase(region) ==
    /\ Called
    /\ comboArg = MixedCombo
    /\ "region" \in DOMAIN userAttributes
    /\ userAttributes["region"] = region

\* C3 (amended): for combo { region: ["US", "!EU"] } a user with region US
\* matches, a user with region EU does not, and a user with region CA matches
\* (the negation !EU is present and not violated).
MixedTokenListAmended ==
    /\ MixedCase("US") => result.status = "true"
    /\ MixedCase("EU") => result.status = "false"
    /\ MixedCase("CA") => result.status = "true"

\* C3 (as claimed): the user with region CA does not match
MixedTokenListAsClaimed ==
    /\ MixedCase("US") => result.status = "true"
    /\ MixedCase("EU") => result.status = "false"
    /\ MixedCase("CA") => result.status = "false"

MixedTokenListWitness == MixedCase("CA") /\ result.status = "true"

-----------------------------------------------------------------------------
(* C1 *)

\* C1: when segment i is the first segment whose combo matches, a call that
\* returns returns the value of segment i alone (its value, or its rollout's
\* secondary value when the bucket is not below the percentage); the trace
\* holds entries for segments 1..i only and none of the default path; and the
\* call does return when the segments before i are well-formed.
FirstMatchIsFinal ==
    (Called /\ Known) =>
        \A i \in 1..Len(TheFeature.segments) :
            IsFirstMatch(TheFeature, userAttributes, i) =>
                LET segment == TheFeature.segments[i]
                IN  /\ (\A j \in 1..(i - 1) : WellFormed(TheFeature.segments[j]))
                            => result.status = "return"
                    /\ result.status = "return" =>
                        /\ result.value = ValueOf(segment, call.userId, TheGroup)
                        /\ CountPrefix(result.reasoning, "Segment did not match: ") = i - 1
                        /\ CountPrefix(result.reasoning, "Segment matched: ") = 1
                        /\ CountPrefix(result.reasoning, "No segments matched") = 0
                        /\ CountPrefix(result.reasoning, "Feature-level rollout") = 0
                        /\ CountPrefix(result.reasoning, "No feature-level rollout") = 0
                        /\ Len(result.reasoning)
                             = 2 * (i - 1) + (IF "rollout" \in DOMAIN segment THEN 5 ELSE 3)

\* two segments match, the first wins over a second one with another value and
\* over a feature-level rollout
FirstMatchWitness ==
    /\ Returned /\ Known
    /\ Len(TheFeature.segments) >= 2
    /\ IsFirstMatch(TheFeature, userAttributes, 1)
    /\ SegmentMatches(TheFeature.segments[2], userAttributes)
    /\ TheFeature.segments[2].value # TheFeature.segments[1].value
    /\ "rollout" \notin DOMAIN TheFeature.segments[1]
    /\ "rollout" \in DOMAIN TheFeature
    /\ TheFeature.value # TheFeature.segments[1].value
    /\ result.value = TheFeature.segments[1].value

-----------------------------------------------------------------------------
(* C4 *)

\* the number of segments the call went past without a match
Passed(feature, attrs) ==
    IF NoSegmentMatches(feature, attrs) THEN Len(feature.segments)
    ELSE (CHOOSE n \in 1..Len(feature.segments) : IsFirstMatch(feature, attrs, n)) - 1

\* what decided the call: the first matching segment, or the feature
Decider(feature, attrs) ==
    IF NoSegmentMatches(feature, attrs) THEN feature
    ELSE feature.segments[Passed(feature, attrs) + 1]

\* C4: when the deciding segment or feature has a rollout, the bucket the
\* engine computes is abs(hash) mod 100 and lies in 0..99, and the call returns
\* the pre-rollout value when bucket < percentage and the secondary value
\* otherwise; so percentage 0 yields the secondary value and percentage 100
\* the pre-rollout value, at segment level and at feature level.
RolloutDecision ==
    (Returned /\ "rollout" \in DOMAIN Decider(TheFeature, userAttributes)) =>
        LET x      == Decider(TheFeature, userAttributes)
            n      == Passed(TheFeature, userAttributes)
            bucket == Bucket(call.userId, TheGroup)
        IN  /\ \E b \in 0..99 :
                  /\ b = bucket
                  /\ result.reasoning[2 * n + 2]
                       = "Evaluating rollout: Hash(" \o call.userId \o ", " \o TheGroup
                         \o ") = " \o ToString(b) \o ", Rollout percentage = "
                         \o ToString(x.rollout.percentage) \o "%"
            /\ result.value = IF bucket < x.rollout.percentage
                              THEN x.value ELSE x.rollout.secondaryValue
            /\ x.rollout.percentage = 0 => result.value = x.rollout.secondaryValue
            /\ x.rollout.percentage = 100 => result.value = x.value

\* percentage 0 at feature level with bucket 0: the secondary value
RolloutWitness ==
    /\ Returned
    /\ Len(TheFeature.segments) = 0
    /\ TheFeature.rollout.percentage = 0
    /\ murmur[call.userId \o "-" \o TheGroup] = U32(0, 100)
    /\ result.value = TheFeature.rollout.secondaryValue
    /\ result.value # TheFeature.value

-----------------------------------------------------------------------------
(* C5 *)

\* C5: whatever setUserId and getFeatureValue calls came before, the outcome
\* of a call (value and trace, or error) is the outcome of the first call made
\* on this engine for the same feature id while the same user id was current.
RolloutSticky ==
    Called => /\ <<call.userId, call.featureId>> \in DOMAIN seen
              /\ result = seen[<<call.userId, call.featureId>>]

\* a rollout decided the call, after calls for at least two other pairs and
\* with another user id set since
StickyWitness ==
    /\ Returned
    /\ Cardinality(DOMAIN seen) >= 3
    /\ call.userId # userId
    /\ Len(result.reasoning) >= 5
    /\ \E k \in DOMAIN seen : k[1] # call.userId /\ k[2] = call.featureId
                               /\ seen[k].value # result.value

-----------------------------------------------------------------------------
(* C6 *)

\* the value a call on a known feature is to return
ExpectedValue(feature, groupId, uid, attrs) ==
    IF NoSegmentMatches(feature, attrs) THEN ValueOf(feature, uid, groupId)
    ELSE LET i == CHOOSE n \in 1..Len(feature.segments) : IsFirstMatch(feature, attrs, n)
         IN  ValueOf(feature.segments[i], uid, groupId)

CallStep == call' # call \/ result' # result

\* C6: a call with a feature id that no group of the configuration holds ends
\* in the feature-not-found error and nothing else (no value, no trace); the
\* step leaves the index, the current user id and the attributes as they
\* were; and a call with a known id right after it evaluates as usual.
UnknownFeatureRaises ==
    /\ []((Called /\ ~Known) =>
            result = [status |-> "throw",
                      error |-> "Feature with id \"" \o call.featureId \o "\" not found."])
    /\ [][(CallStep /\ call'.featureId \notin DOMAIN featureMap)
            => UNCHANGED <<featureMap, userId, userAttributes>>]_vars
    /\ [][(Called /\ ~Known /\ CallStep /\ call'.featureId \in DOMAIN featureMap)
            => \/ result' = [status |-> "throw", error |-> "TypeError"]
               \/ /\ result'.status = "return"
                  /\ result'.value =
                        ExpectedValue(featureMap[call'.featureId].feature,
                                      featureMap[call'.featureId].groupId,
                                      call'.userId, userAttributes)]_vars

\* the unknown id f2 was requested and the error is the outcome
UnknownFeatureWitness ==
    /\ Called /\ ~Known
    /\ call.featureId = "f2"
    /\ result.status = "throw"

-----------------------------------------------------------------------------
(* C7 *)

\* C7 (as claimed): a call on a known feature always returns, malformed
\* segments counting as segments that do not match.
MalformedFailsClosed ==
    (Called /\ Known) =>
        /\ result.status = "return"
        /\ result.value = ExpectedValue(TheFeature, TheGroup, call.userId, userAttributes)

-----------------------------------------------------------------------------
(* C8 *)

ZeroSegmentsNoRollout ==
    /\ Called /\ Known
    /\ Len(TheFeature.segments) = 0
    /\ "rollout" \notin DOMAIN TheFeature

\* C8 (amended): for a feature with zero segments and no rollout the call
\* returns feature.value, and the trace has exactly three entries: no segments
\* matched, no feature-level rollout applied, final value.
DefaultFallbackThreeEntries ==
    ZeroSegmentsNoRollout =>
        /\ result.status = "return"
        /\ result.value = TheFeature.value
        /\ result.reasoning = << "No segments matched. Using default value.",
                                 "No feature-level rollout applied.",
                                 "Final value: " \o TheFeature.value >>

\* C8 (as claimed): the trace has exactly two entries
DefaultFallbackTwoEntries ==
    ZeroSegmentsNoRollout =>
        /\ result.status = "return"
        /\ result.value = TheFeature.value
        /\ Len(result.reasoning) = 2

DefaultFallbackWitness ==
    /\ ZeroSegmentsNoRollout
    /\ result.status = "return"
    /\ result.value = "B"
    /\ call.userId = "u2"

-----------------------------------------------------------------------------
(* C9 *)

\* the trace from position n on narrates x (the matched segment or the
\* feature): the rollout entries or the no-rollout entry, then the final value
NarratesOutcome(trace, n, x, level, noRollout, final, value) ==
    IF "rollout" \in DOMAIN x
    THEN /\ Len(trace) = n + 3
         /\ HasPrefix(trace[n], "Evaluating rollout: ")
         /\ HasPrefix(trace[n + 1], "User ")
         /\ HasPrefix(trace[n + 2], level \o "-level rollout applied: ")
         /\ trace[n + 3] = final \o value
    ELSE /\ Len(trace) = n + 1
         /\ trace[n] = noRollout
         /\ trace[n + 1] = final \o value

\* C9: the trace of every call that returns starts empty and narrates, in
\* declaration order, each segment before the first matching one (the
\* matcher's reason, then "Segment did not match"), then "Segment matched" or
\* "No segments matched", then the rollout narration or the no-rollout entry,
\* and ends with the final-value entry holding the returned value.
TraceIsOrderedNarration ==
    Returned =>
        LET trace == result.reasoning
            segs  == TheFeature.segments
            n     == Passed(TheFeature, userAttributes)
        IN  /\ Len(trace) >= 2 * n + 3
            /\ \A j \in 1..n :
                  /\ HasSuffix(trace[2 * j - 1], "Segment does not match.")
                  /\ trace[2 * j] = "Segment did not match: " \o JSONstringify(segs[j].combo)
            /\ IF n < Len(segs)
               THEN /\ trace[2 * n + 1]
                        = "Segment matched: " \o JSONstringify(segs[n + 1].combo)
                    /\ NarratesOutcome(trace, 2 * n + 2, segs[n + 1], "Segment",
                                       "No segment-level rollout applied.",
                                       "Final value from segment: ", result.value)
               ELSE /\ trace[2 * n + 1] = "No segments matched. Using default value."
                    /\ NarratesOutcome(trace, 2 * n + 2, TheFeature, "Feature",
                                       "No feature-level rollout applied.",
                                       "Final value: ", result.value)

\* a second segment matched after a first one that did not, with a rollout
\* narrated, in a call made after an earlier call on the same engine
TraceWitness ==
    /\ Returned
    /\ Len(TheFeature.segments) = 2
    /\ Passed(TheFeature, userAttributes) = 1
    /\ "rollout" \in DOMAIN TheFeature.segments[2]
    /\ Len(result.reasoning) = 7
    /\ call.userId # userId

-----------------------------------------------------------------------------
(* C10 *)

\* C10: the getFeatureValue call of a timer tick reads the user id the same
\* tick gave to setUserId on that instance (the id is the engine's current one,
\* the one the call used, and the one in the bucket entry of the trace), and
\* no two running intervals hold the same FeatureManager instance.
SetThenEvaluateAtomic ==
    /\ lastTick.mgr \in DOMAIN managers =>
          LET manager == managers[lastTick.mgr]
              entry   == manager.featureMap[call.featureId]
          IN  /\ manager.userId = lastTick.userId
              /\ call.userId = lastTick.userId
              /\ (result.status = "return"
                    /\ "rollout" \in DOMAIN Decider(entry.feature, manager.userAttributes)) =>
                     HasPrefix(result.reasoning[
                                   2 * Passed(entry.feature, manager.userAttributes) + 2],
                               "Evaluating rollout: Hash(" \o lastTick.userId \o ", "
                               \o entry.groupId \o ") = "
                               \o ToString(Bucket(lastTick.userId, entry.groupId)) \o ",")
    /\ \A i, j \in DOMAIN intervals : i # j => intervals[i].mgr # intervals[j].mgr

\* the second tick of the second simulation evaluated for u2, after a tick for u1
AtomicWitness ==
    /\ lastTick = [mgr |-> 2, userId |-> "u2"]
    /\ 2 \in DOMAIN intervals
    /\ intervals[2].valueCounts = <<[value |-> "A", count |-> 1], [value |-> "B", count |-> 1]>>
    /\ result.status = "return"
    /\ result.value = "B"

-----------------------------------------------------------------------------
(* C11 *)

\* a simulation accepted by Start is under way in the mounted component; its N
\* is numUsers, whose input is disabled for as long as it runs
Running == mounted /\ isSimulating

\* n > x for the integer n and the number x: false when x is NaN
gt(n, x) == x # NaN /\ n > x.num

RECURSIVE SumCounts(_)
SumCounts(rows) == IF Len(rows) = 0 THEN 0 ELSE rows[1].count + SumCounts(Tail(rows))

\* the number of simulated users never exceeds N
NeverExceedsN == Running => ~gt(usersSimulatedRef, numUsers)

\* the per-value counts sum to the number of simulated users, in the Map of the
\* running callback and in what the component shows
CountsSumToSimulated ==
    /\ (Running /\ intervalRef \in DOMAIN intervals) =>
          SumCounts(intervals[intervalRef].valueCounts) = usersSimulatedRef
    /\ mounted => SumCounts(simulationData) = usersSimulated

\* while isSimulating is true no second interval is started
NoSecondInterval ==
    /\ [](Cardinality(DOMAIN intervals) <= 1)
    /\ [][Running => created' = created]_vars

\* the run reaches N users, clears its interval and sets isSimulating to false
RunsToN ==
    Running ~> (\/ ~mounted
                \/ /\ ~isSimulating
                   /\ intervals = <<>>
                   /\ numUsers = Num(usersSimulatedRef))

\* C11: a simulation accepted with numUsers = N, in a component that stays
\* mounted, never simulates more than N users, keeps the per-value counts summing
\* to the number of simulated users, starts no second interval while
\* isSimulating is true and, with the timer firing again and again, reaches N
\* users, clears its interval and sets isSimulating to false.
SimulationRunsExactlyN ==
    /\ [](NeverExceedsN /\ CountsSumToSimulated)
    /\ NoSecondInterval
    /\ RunsToN

-----------------------------------------------------------------------------
(* C12 *)

\* the fetch started by the latest run of the effect got an ok response
CurrentFetchOk == platform # "" /\ issued \in DOMAIN responses /\ responses[issued]

\* with no fetch in flight, platformData and featuresList are those fetched for
\* the selected platform, or null and empty
StoredIsForSelected ==
    fetches = {} =>
        IF CurrentFetchOk
        THEN /\ platformData = <<PlatformDocs[platform]>>
             /\ featuresList = featureIdsOf(PlatformDocs[platform])
        ELSE /\ platformData = <<>>
             /\ featuresList = <<>>

\* a step that ends a fetch other than the one of the latest run of the effect
EndsStaleFetch ==
    \E f \in fetches :
        /\ \A g \in fetches' : g.id # f.id
        /\ platform = "" \/ f.id # issued

\* C12: once no fetch is in flight, the stored platformData and featuresList are
\* those fetched for the currently selected platform (null and empty when none is
\* selected or its fetch failed), and the end of a fetch for a platform selected
\* earlier leaves the stored platformData and featuresList as they are.
LoadedMatchesSelected ==
    /\ []StoredIsForSelected
    /\ [][EndsStaleFetch => UNCHANGED <<platformData, featuresList>>]_vars

====
